---- MODULE Spec2Model ----
(***************************************************************************)
(* Study-room reservation back end: the reservation routes                 *)
(* (routes/reservations.js), the check-in / check-out routes               *)
(* (routes/signin.js) and the Reservation, Room and SignIn schemas.        *)
(*                                                                         *)
(* Time values are the "HH:MM" strings the routes receive and store; they  *)
(* are modelled as sequences of one-character strings so that the string   *)
(* comparison of checkBookingConflict and the split/Number parse of the    *)
(* create route are computed as JavaScript computes them.                  *)
(***************************************************************************)
EXTENDS Integers, Sequences, FiniteSets, TLC

VARIABLES reservations, signIns, rooms, inflight, res

vars == <<reservations, signIns, rooms, inflight, res>>

(***************************************************************************)
(* Bounds of the model.                                                    *)
(***************************************************************************)
\* reservations the store holds under Spec, and under SpecBooking and SpecRace
MaxReservations == 1

MaxBookings == 2

\* sign-in records the store holds
MaxSignIns == 1

\* largest numberOfPeople a request carries
MaxPeople == 3

\* reservations, and sign-in records, the store holds under SpecVisit
MaxVisits == 2

\* sign-in records in SpecDesk
MaxDeskSignIns == 2

\* check-in requests admitted in SpecDoor
MaxDoorSignIns == 2

(***************************************************************************)
(* JavaScript strings and their operators.                                 *)
(***************************************************************************)
\* value of a decimal digit
DigitVal(c) ==
    CASE c = "0" -> 0 [] c = "1" -> 1 [] c = "2" -> 2 [] c = "3" -> 3 [] c = "4" -> 4
      [] c = "5" -> 5 [] c = "6" -> 6 [] c = "7" -> 7 [] c = "8" -> 8 [] c = "9" -> 9

\* UTF-16 code unit of the characters that occur in a time string
CharCode(c) == IF c = ":" THEN 58 ELSE 48 + DigitVal(c)

RECURSIVE StrLess(_, _)
\* a < b on JavaScript strings: lexicographic on code units
StrLess(a, b) ==
    IF b = <<>> THEN FALSE
    ELSE IF a = <<>> THEN TRUE
    ELSE IF Head(a) = Head(b) THEN StrLess(Tail(a), Tail(b))
    ELSE CharCode(Head(a)) < CharCode(Head(b))

\* a <= b and a >= b on JavaScript strings
StrLE(a, b) == a = b \/ StrLess(a, b)

StrGE(a, b) == a = b \/ StrLess(b, a)

\* position of the first ':' of s (s has one)
ColonPos(s) == CHOOSE i \in 1..Len(s) : s[i] = ":" /\ \A j \in 1..(i - 1) : s[j] # ":"

RECURSIVE ToNumber(_)
\* Number(ds) for a string of decimal digits
ToNumber(ds) ==
    IF ds = <<>> THEN 0
    ELSE 10 * ToNumber(SubSeq(ds, 1, Len(ds) - 1)) + DigitVal(ds[Len(ds)])

\* s.split(':').map(Number), for a string with one ':'
SplitTime(s) ==
    LET c == ColonPos(s)
    IN  <<ToNumber(SubSeq(s, 1, c - 1)), ToNumber(SubSeq(s, c + 1, Len(s)))>>

\* hour * 60 + minute of a time string
MinuteOfDay(s) == LET hm == SplitTime(s) IN hm[1] * 60 + hm[2]

\* duration = (endHour * 60 + endMin) - (startHour * 60 + startMin)
Duration(startTime, endTime) == MinuteOfDay(endTime) - MinuteOfDay(startTime)

\* new Date(s) for the date strings of the model: the instant, in minutes since
\* the epoch (a date-only string is midnight UTC)
NewDate(s) ==
    CASE s = "2024-12-05" -> 20062 * 1440
      [] s = "2024-12-05T00:00:00.000Z" -> 20062 * 1440
      [] s = "2024-12-05T10:00:00.000Z" -> 20062 * 1440 + 600
      [] s = "2024-12-06" -> 20063 * 1440

(***************************************************************************)
(* Seed data: users with their roles, buildings, rooms.                    *)
(***************************************************************************)
Role == [u1 |-> "student", u2 |-> "staff", u3 |-> "student", adm |-> "admin"]

Users == DOMAIN Role

Buildings == {"b1"}

RoomSeed ==
    [r1 |-> [capacity |-> 2, currentOccupancy |-> 0, occupancyStatus |-> "available"],
     r2 |-> [capacity |-> 1, currentOccupancy |-> 0, occupancyStatus |-> "available"]]

\* falsy values of the request bodies: undefined / "" / 0
NoTime == <<>>

\* null in a Date field; an instant new Date() returns is a pair <<event, n>>
NoDate == <<>>

ActiveStatuses == {"pending", "confirmed"}

ReservationStatuses == {"pending", "confirmed", "cancelled", "completed", "no-show"}

Purposes == {"studying", "group-project", "meeting", "exam-prep", "other"}

(***************************************************************************)
(* Schema validation run by save().                                        *)
(***************************************************************************)
ValidReservation(doc) ==
    /\ doc.purpose \in Purposes
    /\ doc.numberOfPeople >= 1
    /\ doc.status \in ReservationStatuses

(***************************************************************************)
(* checkBookingConflict                                                    *)
(***************************************************************************)
\* Reservation.find(query): the ids of the stored reservations that match
ConflictQuery(store, roomId, date, excludeId) ==
    {i \in DOMAIN store :
        /\ store[i].room = roomId
        /\ store[i].reservationDate = date
        /\ store[i].status \in ActiveStatuses
        /\ (excludeId # 0 => i # excludeId)}

\* the loop's test on one stored reservation
Overlaps(startTime, endTime, existing) ==
    ~(StrLE(endTime, existing.startTime) \/ StrGE(startTime, existing.endTime))

checkBookingConflict(store, roomId, date, startTime, endTime, excludeId) ==
    \E i \in ConflictQuery(store, roomId, date, excludeId) :
        Overlaps(startTime, endTime, store[i])

(***************************************************************************)
(* POST /api/reservations                                                  *)
(***************************************************************************)
Response(op, status, message) == [op |-> op, status |-> status, message |-> message]

\* mutant: the comparison is off by one
ExceedsCapacityOffByOne(numberOfPeople, room) == numberOfPeople > room.capacity + 1

\* numberOfPeople > roomData.capacity
ExceedsCapacity(numberOfPeople, room) == numberOfPeople > room.capacity

NewReservation(userId, body) ==
    [user |-> userId,
     room |-> body.room,
     building |-> body.building,
     reservationDate |-> NewDate(body.reservationDate),
     startTime |-> body.startTime,
     endTime |-> body.endTime,
     duration |-> Duration(body.startTime, body.endTime),
     purpose |-> body.purpose,
     numberOfPeople |-> body.numberOfPeople,
     notes |-> body.notes,
     status |-> "pending",
     cancelReason |-> "null",
     cancelledAt |-> "null",
     cancelledBy |-> "null",
     checkInTime |-> NoDate,
     checkOutTime |-> NoDate]

NoResponse == Response("none", 0, "")

\* the create route up to and including the conflict check: the response it
\* returns there, or NoResponse when it goes on
CreateRejection(store, body) ==
    IF \/ body.room = "" \/ body.building = "" \/ body.reservationDate = ""
       \/ body.startTime = NoTime \/ body.endTime = NoTime
       \/ body.purpose = "" \/ body.numberOfPeople = 0
    THEN Response("create", 400, "Missing required fields")
    ELSE IF body.room \notin DOMAIN rooms
    THEN Response("create", 404, "Room not found")
    ELSE IF body.building \notin Buildings
    THEN Response("create", 404, "Building not found")
    ELSE IF ExceedsCapacity(body.numberOfPeople, rooms[body.room])
    THEN Response("create", 400, "Room capacity is")
    ELSE IF checkBookingConflict(store, body.room, NewDate(body.reservationDate),
                                 body.startTime, body.endTime, 0)
    THEN Response("create", 409, "Time slot is already booked")
    ELSE NoResponse

\* the create route after the conflict check: duration, save(), response
CreateCompletion(userId, body) ==
    IF Duration(body.startTime, body.endTime) <= 0
    THEN Response("create", 400, "End time must be after start time")
    ELSE IF ~ValidReservation(NewReservation(userId, body))
    THEN Response("create", 500, "Error creating reservation")
    ELSE Response("create", 201, "Reservation created successfully")

\* the response of the create route when it runs to completion in one step
CreateResponse(store, userId, body) ==
    LET early == CreateRejection(store, body)
    IN  IF early # NoResponse THEN early ELSE CreateCompletion(userId, body)

Create(userId, body) ==
    /\ res' = CreateResponse(reservations, userId, body)
    /\ reservations' = IF res'.status = 201
                       THEN Append(reservations, NewReservation(userId, body))
                       ELSE reservations
    /\ UNCHANGED <<signIns, rooms, inflight>>

(***************************************************************************)
(* PUT /api/reservations/:id                                               *)
(***************************************************************************)
\* the reservation as the update route holds it in memory before save()
\* mutant: the purpose is rewritten along with the times
UpdatedReservationRetagged(doc, body) ==
    [doc EXCEPT
        !.startTime = IF body.startTime # NoTime THEN body.startTime ELSE @,
        !.endTime = IF body.endTime # NoTime THEN body.endTime ELSE @,
        !.numberOfPeople = IF body.numberOfPeople # 0 THEN body.numberOfPeople ELSE @,
        !.notes = IF body.notes # "" THEN body.notes ELSE @,
        !.status = IF body.status \in {"confirmed", "cancelled"} THEN body.status ELSE @,
        !.purpose = IF body.startTime # NoTime THEN "other" ELSE @]

\* mutant: no-show is stored too
UpdatedReservationNoShow(doc, body) ==
    [doc EXCEPT
        !.startTime = IF body.startTime # NoTime THEN body.startTime ELSE @,
        !.endTime = IF body.endTime # NoTime THEN body.endTime ELSE @,
        !.numberOfPeople = IF body.numberOfPeople # 0 THEN body.numberOfPeople ELSE @,
        !.notes = IF body.notes # "" THEN body.notes ELSE @,
        !.status = IF body.status \in {"confirmed", "cancelled", "no-show"}
                   THEN body.status ELSE @]

\* mutant: any status given is stored
UpdatedReservationAnyStatus(doc, body) ==
    [doc EXCEPT
        !.startTime = IF body.startTime # NoTime THEN body.startTime ELSE @,
        !.endTime = IF body.endTime # NoTime THEN body.endTime ELSE @,
        !.numberOfPeople = IF body.numberOfPeople # 0 THEN body.numberOfPeople ELSE @,
        !.notes = IF body.notes # "" THEN body.notes ELSE @,
        !.status = IF body.status # "" THEN body.status ELSE @]

UpdatedReservation(doc, body) ==
    [doc EXCEPT
        !.startTime = IF body.startTime # NoTime THEN body.startTime ELSE @,
        !.endTime = IF body.endTime # NoTime THEN body.endTime ELSE @,
        !.numberOfPeople = IF body.numberOfPeople # 0 THEN body.numberOfPeople ELSE @,
        !.notes = IF body.notes # "" THEN body.notes ELSE @,
        !.status = IF body.status \in {"confirmed", "cancelled"} THEN body.status ELSE @]

\* mutant: staff is let through like admin
UnauthorizedStudentOnly(doc, userId) == doc.user # userId /\ Role[userId] = "student"

\* reservation.user.toString() !== req.user.userId && req.user.role !== 'admin'
Unauthorized(doc, userId) == doc.user # userId /\ Role[userId] # "admin"

\* mutant: confirmed reservations are let through like pending ones
StatusGateActiveOnly(doc, body) ==
    doc.status \notin ActiveStatuses /\ body.status # "confirmed"

\* mutant: the exception for status=confirmed is missing
StatusGateNoException(doc, body) == doc.status # "pending"

\* reservation.status !== 'pending' && status !== 'confirmed'
StatusGate(doc, body) == doc.status # "pending" /\ body.status # "confirmed"

UpdateResponse(store, userId, id, body) ==
    IF id \notin DOMAIN store
    THEN Response("update", 404, "Reservation not found")
    ELSE IF Unauthorized(store[id], userId)
    THEN Response("update", 403, "Unauthorized")
    ELSE IF StatusGate(store[id], body)
    THEN Response("update", 400, "Can only modify pending reservations")
    ELSE IF /\ (body.startTime # NoTime \/ body.endTime # NoTime)
            /\ checkBookingConflict(store, store[id].room, store[id].reservationDate,
                   IF body.startTime # NoTime THEN body.startTime ELSE store[id].startTime,
                   IF body.endTime # NoTime THEN body.endTime ELSE store[id].endTime,
                   id)
    THEN Response("update", 409, "New time slot is already booked")
    ELSE IF body.numberOfPeople # 0
            /\ ExceedsCapacity(body.numberOfPeople, rooms[store[id].room])
    THEN Response("update", 400, "Room capacity is")
    ELSE IF ~ValidReservation(UpdatedReservation(store[id], body))
    THEN Response("update", 500, "Error updating reservation")
    ELSE Response("update", 200, "Reservation updated successfully")

\* mutant: the new times are saved before the capacity check
UpdateSavedBeforeCapacity(userId, id, body) ==
    /\ res' = UpdateResponse(reservations, userId, id, body)
    /\ reservations' =
          IF res'.status = 200
          THEN [reservations EXCEPT ![id] = UpdatedReservation(@, body)]
          ELSE IF res' = Response("update", 400, "Room capacity is")
          THEN [reservations EXCEPT
                  ![id].startTime = IF body.startTime # NoTime THEN body.startTime ELSE @,
                  ![id].endTime = IF body.endTime # NoTime THEN body.endTime ELSE @]
          ELSE reservations
    /\ UNCHANGED <<signIns, rooms, inflight>>

Update(userId, id, body) ==
    /\ res' = UpdateResponse(reservations, userId, id, body)
    /\ reservations' = IF res'.status = 200
                       THEN [reservations EXCEPT ![id] = UpdatedReservation(@, body)]
                       ELSE reservations
    /\ UNCHANGED <<signIns, rooms, inflight>>

(***************************************************************************)
(* DELETE /api/reservations/:id                                            *)
(***************************************************************************)
\* mutant: the cancelling caller is not recorded
CancelledReservationNoActor(doc, userId, reason) ==
    [doc EXCEPT !.status = "cancelled",
                !.cancelledAt = "Date",
                !.cancelReason = reason]

CancelledReservation(doc, userId, reason) ==
    [doc EXCEPT !.status = "cancelled",
                !.cancelledAt = "Date",
                !.cancelledBy = userId,
                !.cancelReason = reason]

\* mutant: only cancelled reservations are refused
CancelResponseCancelledOnly(store, userId, id) ==
    IF id \notin DOMAIN store
    THEN Response("cancel", 404, "Reservation not found")
    ELSE IF Unauthorized(store[id], userId)
    THEN Response("cancel", 403, "Unauthorized")
    ELSE IF store[id].status = "cancelled"
    THEN Response("cancel", 400, "Cannot cancel completed or already cancelled reservations")
    ELSE Response("cancel", 200, "Reservation cancelled successfully")

CancelResponse(store, userId, id) ==
    IF id \notin DOMAIN store
    THEN Response("cancel", 404, "Reservation not found")
    ELSE IF Unauthorized(store[id], userId)
    THEN Response("cancel", 403, "Unauthorized")
    ELSE IF store[id].status \notin ActiveStatuses
    THEN Response("cancel", 400, "Cannot cancel completed or already cancelled reservations")
    ELSE Response("cancel", 200, "Reservation cancelled successfully")

Cancel(userId, id, reason) ==
    /\ res' = CancelResponse(reservations, userId, id)
    /\ reservations' = IF res'.status = 200
                       THEN [reservations EXCEPT ![id] = CancelledReservation(@, userId, reason)]
                       ELSE reservations
    /\ UNCHANGED <<signIns, rooms, inflight>>

(***************************************************************************)
(* Room pre('save') hook                                                   *)
(***************************************************************************)
\* mutant: save() without the hook
SavedRoomUnhooked(room) == room

SavedRoom(room) ==
    [room EXCEPT !.occupancyStatus =
        IF room.currentOccupancy > 0 THEN "occupied"
        ELSE IF @ # "maintenance" THEN "available"
        ELSE @]

(***************************************************************************)
(* POST /api/signin                                                        *)
(***************************************************************************)
\* An instant is <<ms>>, a reading of the clock in milliseconds.  Where the
\* clock is not explored, the check-in that creates sign-in record n reads
\* SignInInstant(n) and the check-out of record n reads SignOutInstant(n):
\* check-ins ten minutes apart, each visit a minute and a half.
SignInInstant(n) == <<(n - 1) * 600000>>

SignOutInstant(n) == <<(n - 1) * 600000 + 90000>>

\* actualDuration: null
NoDuration == <<>>

\* mutant: the minutes are truncated
SavedSignInTruncated(doc) ==
    IF doc.signOutTime # NoDate /\ doc.signInTime # NoDate
    THEN [doc EXCEPT !.actualDuration =
            <<(doc.signOutTime[1] - doc.signInTime[1]) \div 60000>>]
    ELSE doc

\* signInSchema.pre('save'): Math.round(x) is floor(x + 0.5)
SavedSignIn(doc) ==
    IF doc.signOutTime # NoDate /\ doc.signInTime # NoDate
    THEN [doc EXCEPT !.actualDuration =
            <<(doc.signOutTime[1] - doc.signInTime[1] + 30000) \div 60000>>]
    ELSE doc

NewSignInAt(userId, body, now) ==
    SavedSignIn([user |-> userId,
                 reservation |-> body.reservation,
                 room |-> body.room,
                 building |-> body.building,
                 signInTime |-> now,
                 signOutTime |-> NoDate,
                 actualDuration |-> NoDuration,
                 notes |-> body.notes,
                 status |-> "active"])

NewSignIn(userId, body) == NewSignInAt(userId, body, SignInInstant(Len(signIns) + 1))

\* mutant: every status is accepted
CheckInStatusOkAlways(doc) == TRUE

\* ['pending', 'confirmed'].includes(reservationData.status)
CheckInStatusOk(doc) == doc.status \in ActiveStatuses

\* mutant: the lookup finds nothing
ExistingSignInNever(reservation) == FALSE

\* SignIn.findOne({ reservation, status: 'active' })
ExistingSignIn(reservation) ==
    \E s \in DOMAIN signIns :
        signIns[s].reservation = reservation /\ signIns[s].status = "active"

CheckInResponse(userId, body) ==
    IF body.reservation = 0 \/ body.room = "" \/ body.building = ""
    THEN Response("checkin", 400, "Missing required fields")
    ELSE IF body.reservation \notin DOMAIN reservations
    THEN Response("checkin", 404, "Reservation not found")
    ELSE IF reservations[body.reservation].user # userId
    THEN Response("checkin", 403, "Unauthorized")
    ELSE IF ~CheckInStatusOk(reservations[body.reservation])
    THEN Response("checkin", 400, "Can only check in for pending or confirmed reservations")
    ELSE IF ExistingSignIn(body.reservation)
    THEN Response("checkin", 400, "Already checked in for this reservation")
    ELSE IF body.room \notin DOMAIN rooms
    THEN Response("checkin", 500, "Error during check-in")
    ELSE Response("checkin", 201, "Check-in successful")

\* the request, with `now` the reading of new Date()
CheckInAt(userId, body, now) ==
    /\ res' = CheckInResponse(userId, body)
    \* signIn.save() precedes the room lookup: it is kept when the lookup throws
    /\ signIns' = IF res'.status \in {201, 500}
                  THEN Append(signIns, NewSignInAt(userId, body, now))
                  ELSE signIns
    /\ rooms' = IF res'.status = 201
                THEN [rooms EXCEPT ![body.room] =
                        SavedRoom([@ EXCEPT !.currentOccupancy = @ + 1])]
                ELSE rooms
    /\ UNCHANGED <<reservations, inflight>>

CheckIn(userId, body) == CheckInAt(userId, body, SignInInstant(Len(signIns) + 1))

(***************************************************************************)
(* POST /api/signin/:id/checkout                                           *)
(***************************************************************************)
\* mutant: an admin is let through
NotOwnSignInUnlessAdmin(doc, userId) == doc.user # userId /\ Role[userId] # "admin"

\* signIn.user.toString() !== req.user.userId
NotOwnSignIn(doc, userId) == doc.user # userId

\* mutant: only a completed record is refused
SignInNotActiveCompletedOnly(doc) == doc.status = "completed"

\* signIn.status !== 'active'
SignInNotActive(doc) == doc.status # "active"

CheckOutResponse(userId, id) ==
    IF id \notin DOMAIN signIns
    THEN Response("checkout", 404, "Check-in record not found")
    ELSE IF NotOwnSignIn(signIns[id], userId)
    THEN Response("checkout", 403, "Unauthorized")
    ELSE IF SignInNotActive(signIns[id])
    THEN Response("checkout", 400, "Check-in is not active")
    ELSE IF signIns[id].room \notin DOMAIN rooms
    THEN Response("checkout", 500, "Error during check-out")
    ELSE Response("checkout", 200, "Check-out successful")

\* mutant: the count is reset
DecrementedOccupancyReset(n) == 0

\* Math.max(0, (room.currentOccupancy || 1) - 1)
DecrementedOccupancy(n) ==
    IF (IF n = 0 THEN 1 ELSE n) - 1 > 0 THEN (IF n = 0 THEN 1 ELSE n) - 1 ELSE 0

\* the sign-in record as check-out saves it, with `now` the reading of new Date()
CheckedOutSignInAt(doc, notes, now) ==
    SavedSignIn([doc EXCEPT !.signOutTime = now,
                            !.status = "completed",
                            !.notes = IF notes # "" THEN notes ELSE @])

CheckedOutSignIn(doc, id, notes) == CheckedOutSignInAt(doc, notes, SignOutInstant(id))

\* the linked reservation as check-out saves it
CompletedReservation(doc, signIn) ==
    [doc EXCEPT !.status = "completed",
                !.checkInTime = signIn.signInTime,
                !.checkOutTime = signIn.signOutTime]

CheckOutAt(userId, id, notes, now) ==
    /\ res' = CheckOutResponse(userId, id)
    \* signIn.save() precedes the room lookup: it is kept when the lookup throws
    /\ signIns' = IF res'.status \in {200, 500}
                  THEN [signIns EXCEPT ![id] = CheckedOutSignInAt(@, notes, now)]
                  ELSE signIns
    /\ rooms' = IF res'.status = 200
                THEN [rooms EXCEPT ![signIns[id].room] =
                        SavedRoom([@ EXCEPT !.currentOccupancy = DecrementedOccupancy(@)])]
                ELSE rooms
    /\ reservations' = IF res'.status = 200 /\ signIns[id].reservation \in DOMAIN reservations
                       THEN [reservations EXCEPT ![signIns[id].reservation] =
                               CompletedReservation(@, signIns'[id])]
                       ELSE reservations
    /\ UNCHANGED inflight

CheckOut(userId, id, notes) == CheckOutAt(userId, id, notes, SignOutInstant(id))

(***************************************************************************)
(* PUT /api/signin/:id                                                     *)
(***************************************************************************)
SignInStatuses == {"active", "completed", "abandoned"}

UpdateSignInResponse(userId, id) ==
    IF id \notin DOMAIN signIns
    THEN Response("updateSignIn", 404, "Check-in record not found")
    ELSE IF signIns[id].user # userId /\ Role[userId] # "admin"
    THEN Response("updateSignIn", 403, "Unauthorized")
    ELSE Response("updateSignIn", 200, "Check-in record updated successfully")

\* the sign-in record as the route saves it: notes when given, status when an
\* admin gives one of the schema's values
UpdatedSignIn(doc, userId, body) ==
    SavedSignIn([doc EXCEPT !.notes = IF body.notes # "" THEN body.notes ELSE @,
                            !.status = IF /\ body.status # ""
                                          /\ Role[userId] = "admin"
                                          /\ body.status \in SignInStatuses
                                       THEN body.status
                                       ELSE @])

UpdateSignIn(userId, id, body) ==
    /\ res' = UpdateSignInResponse(userId, id)
    /\ signIns' = IF res'.status = 200
                  THEN [signIns EXCEPT ![id] = UpdatedSignIn(@, userId, body)]
                  ELSE signIns
    /\ UNCHANGED <<reservations, rooms, inflight>>

(***************************************************************************)
(* PUT /api/rooms/:id                                                      *)
(***************************************************************************)
RoomStatuses == {"available", "occupied", "maintenance"}

\* the room as the route sets it before save(): capacity 0 stands for none given
EditedRoom(room, body) ==
    [room EXCEPT !.capacity = IF body.capacity # 0 THEN body.capacity ELSE @,
                 !.occupancyStatus = IF /\ body.occupancyStatus # ""
                                       /\ body.occupancyStatus \in RoomStatuses
                                    THEN body.occupancyStatus
                                    ELSE @]

\* roomSchema: capacity min 1, currentOccupancy min 0
ValidRoom(room) == room.capacity >= 1 /\ room.currentOccupancy >= 0

UpdateRoomResponse(userId, roomId, body) ==
    IF Role[userId] # "admin"
    THEN Response("updateRoom", 403, "Only admins can update rooms")
    ELSE IF roomId \notin DOMAIN rooms
    THEN Response("updateRoom", 404, "Room not found")
    ELSE IF ~ValidRoom(EditedRoom(rooms[roomId], body))
    THEN Response("updateRoom", 500, "Error updating room")
    ELSE Response("updateRoom", 200, "Room updated successfully")

UpdateRoom(userId, roomId, body) ==
    /\ res' = UpdateRoomResponse(userId, roomId, body)
    /\ rooms' = IF res'.status = 200
                THEN [rooms EXCEPT ![roomId] = SavedRoom(EditedRoom(@, body))]
                ELSE rooms
    /\ UNCHANGED <<reservations, signIns, inflight>>

(***************************************************************************)
(* PATCH /api/rooms/:id/occupancy (no authentication)                      *)
(***************************************************************************)
\* a body's currentOccupancy is <<n>>, or <<>> for undefined
NoCount == <<>>

\* the room as the route sets it before save()
PatchedRoom(room, body) ==
    [room EXCEPT !.currentOccupancy =
                     IF body.currentOccupancy # NoCount
                     THEN (IF body.currentOccupancy[1] > 0
                           THEN body.currentOccupancy[1] ELSE 0)
                     ELSE @,
                 !.occupancyStatus = IF /\ body.status # ""
                                       /\ body.status \in RoomStatuses
                                    THEN body.status
                                    ELSE @]

PatchOccupancyResponse(roomId) ==
    IF roomId \notin DOMAIN rooms
    THEN Response("occupancy", 404, "Room not found")
    ELSE Response("occupancy", 200, "Room occupancy updated successfully")

PatchOccupancy(roomId, body) ==
    /\ res' = PatchOccupancyResponse(roomId)
    /\ rooms' = IF res'.status = 200
                THEN [rooms EXCEPT ![roomId] = SavedRoom(PatchedRoom(@, body))]
                ELSE rooms
    /\ UNCHANGED <<reservations, signIns, inflight>>

(***************************************************************************)
(* Request inputs of the model.                                            *)
(***************************************************************************)
T0800 == <<"0", "8", ":", "0", "0">>

T0900 == <<"9", ":", "0", "0">>

T1000 == <<"1", "0", ":", "0", "0">>

T1100 == <<"1", "1", ":", "0", "0">>

T1200 == <<"1", "2", ":", "0", "0">>

Procs == {"p1", "p2"}

Idle == [user |-> "", body |-> <<>>]

\* a reservation an administrator marked no-show directly in the store
NoShowSeed ==
    [user |-> "u1", room |-> "r1", building |-> "b1",
     reservationDate |-> NewDate("2024-12-05"),
     startTime |-> T1000, endTime |-> T1200, duration |-> 120, purpose |-> "studying",
     numberOfPeople |-> 1, notes |-> "", status |-> "no-show",
     cancelReason |-> "null", cancelledAt |-> "null", cancelledBy |-> "null",
     checkInTime |-> NoDate, checkOutTime |-> NoDate]

\* the store after seeding, without reservations
InitEmpty ==
    /\ reservations = <<>>
    /\ signIns = <<>>
    /\ rooms = RoomSeed
    /\ inflight = [p \in Procs |-> Idle]
    /\ res = NoResponse

\* the same, or with a reservation marked no-show
Init ==
    /\ reservations \in {<<>>, <<NoShowSeed>>}
    /\ signIns = <<>>
    /\ rooms = RoomSeed
    /\ inflight = [p \in Procs |-> Idle]
    /\ res = NoResponse

\* the store takes a new document only while it holds fewer than the bound
Room4Reservation(response, max) == response.status = 201 => Len(reservations) < max

Room4SignIn(response, max) == response.status \in {201, 500} => Len(signIns) < max

(***************************************************************************)
(* Spec: the life cycle of a reservation, one request at a time.           *)
(***************************************************************************)
CreateBodies ==
    [room : {"r1"}, building : {"b1"}, reservationDate : {"2024-12-05"},
     startTime : {T1000, T1100}, endTime : {T1200}, purpose : {"studying"},
     numberOfPeople : {1, MaxPeople}, notes : {""}]
    \cup
    [room : {"r1"}, building : {"b1"}, reservationDate : {"2024-12-05"},
     startTime : {T1100}, endTime : {T1000, T1100}, purpose : {"studying"},
     numberOfPeople : {1}, notes : {""}]
    \cup
    [room : {"r1", "r9"}, building : {"b1", "b9"}, reservationDate : {"2024-12-05"},
     startTime : {T1000}, endTime : {T1200}, purpose : {"", "party"},
     numberOfPeople : {0, 1}, notes : {""}]

UpdateBodies ==
    [startTime : {NoTime, T1100}, endTime : {NoTime},
     numberOfPeople : {0, 2, MaxPeople}, notes : {"", "n"},
     status : {"", "confirmed"}]
    \cup
    [startTime : {NoTime}, endTime : {NoTime, T1200},
     numberOfPeople : {0}, notes : {"", "n"},
     status : {"cancelled", "completed"}]

CheckInBodies ==
    [reservation : 1..MaxReservations, room : {"r1"}, building : {"b1"}, notes : {""}]

Creators == {"u1"}

Next ==
    \/ \E u \in Creators, body \in CreateBodies :
          /\ Room4Reservation(CreateResponse(reservations, u, body), MaxReservations)
          /\ Create(u, body)
    \/ \E u \in Users, id \in 1..MaxReservations, body \in UpdateBodies :
          Update(u, id, body)
    \/ \E u \in Users, id \in 1..MaxReservations : Cancel(u, id, "")
    \/ \E u \in Users, body \in CheckInBodies :
          Room4SignIn(CheckInResponse(u, body), MaxSignIns) /\ CheckIn(u, body)
    \/ \E u \in Users, id \in 1..MaxSignIns : CheckOut(u, id, "")

Spec == Init /\ [][Next]_vars

(***************************************************************************)
(* SpecBooking: the bookings of the rooms, one request at a time, with the *)
(* time values the create route accepts ("9:00" as well as "10:00").       *)
(***************************************************************************)
BookingBodies ==
    [room : {"r1"}, building : {"b1"}, reservationDate : {"2024-12-05", "2024-12-06"},
     startTime : {T0900, T1000, T1100}, endTime : {T1100, T1200}, purpose : {"studying"},
     numberOfPeople : {1}, notes : {""}]
    \cup
    [room : {"r1", "r2"}, building : {"b1"},
     reservationDate : {"2024-12-05T00:00:00.000Z", "2024-12-05T10:00:00.000Z"},
     startTime : {T1100}, endTime : {T1200}, purpose : {"studying"},
     numberOfPeople : {1}, notes : {""}]

RebookingBodies ==
    [startTime : {NoTime, T0900}, endTime : {NoTime, T1200},
     numberOfPeople : {0}, notes : {""}, status : {"", "confirmed"}]
    \cup
    [startTime : {T1200}, endTime : {NoTime},
     numberOfPeople : {0}, notes : {""}, status : {""}]

NextBooking ==
    \/ \E body \in BookingBodies :
          /\ Room4Reservation(CreateResponse(reservations, "u1", body), MaxBookings)
          /\ Create("u1", body)
    \/ \E id \in 1..MaxBookings, body \in RebookingBodies : Update("u1", id, body)
    \/ \E id \in 1..MaxBookings : Cancel("u1", id, "")

SpecBooking == InitEmpty /\ [][NextBooking]_vars

(***************************************************************************)
(* SpecRace: create requests that run concurrently.  A request gives way   *)
(* at its awaits; BeginCreate runs it through the conflict check's read,   *)
(* FinishCreate from there through save().                                 *)
(***************************************************************************)
\* reservationSchema.index({room, reservationDate, startTime, endTime, status}):
\* the index is not unique, so it refuses no document
IndexRefuses(store, doc) == FALSE

BeginCreate(p, userId, body) ==
    /\ inflight[p] = Idle
    /\ IF CreateRejection(reservations, body) # NoResponse
       THEN /\ res' = CreateRejection(reservations, body)
            /\ UNCHANGED inflight
       ELSE /\ inflight' = [inflight EXCEPT ![p] = [user |-> userId, body |-> body]]
            /\ UNCHANGED res
    /\ UNCHANGED <<reservations, signIns, rooms>>

FinishCreate(p) ==
    /\ inflight[p] # Idle
    /\ inflight' = [inflight EXCEPT ![p] = Idle]
    /\ res' = IF IndexRefuses(reservations,
                              NewReservation(inflight[p].user, inflight[p].body))
              THEN Response("create", 500, "Error creating reservation")
              ELSE CreateCompletion(inflight[p].user, inflight[p].body)
    /\ reservations' = IF res'.status = 201
                       THEN Append(reservations,
                                   NewReservation(inflight[p].user, inflight[p].body))
                       ELSE reservations
    /\ UNCHANGED <<signIns, rooms>>

RaceBodies ==
    [room : {"r1", "r2"}, building : {"b1"}, reservationDate : {"2024-12-05"},
     startTime : {T1000, T1100}, endTime : {T1100, T1200}, purpose : {"studying"},
     numberOfPeople : {1}, notes : {""}]

NextRace ==
    \/ \E p \in Procs, body \in RaceBodies :
          Len(reservations) < MaxBookings /\ BeginCreate(p, "u1", body)
    \/ \E p \in Procs :
          /\ inflight[p] # Idle
          /\ Room4Reservation(CreateCompletion(inflight[p].user, inflight[p].body),
                              MaxBookings)
          /\ FinishCreate(p)

SpecRace == InitEmpty /\ [][NextRace]_vars

(***************************************************************************)
(* SpecVisit: two reservations of one user and the visits to their room:   *)
(* confirm, cancel (by the owner or an admin, with or without a reason),   *)
(* check-in (also with a room id that does not exist) and check-out.       *)
(***************************************************************************)
VisitBodies ==
    [room : {"r1"}, building : {"b1"}, reservationDate : {"2024-12-05", "2024-12-06"},
     startTime : {T1000}, endTime : {T1200}, purpose : {"studying"},
     numberOfPeople : {1}, notes : {""}]

VisitUpdates ==
    [startTime : {NoTime}, endTime : {NoTime}, numberOfPeople : {0}, notes : {""},
     status : {"confirmed"}]

VisitCheckIns ==
    [reservation : 1..MaxVisits, room : {"r1", "r9"}, building : {"b1"}, notes : {""}]

\* who cancels, and the reason given
VisitCancels == {<<"u1", "">>, <<"adm", "sick">>}

NextVisit ==
    \/ \E body \in VisitBodies :
          /\ Room4Reservation(CreateResponse(reservations, "u1", body), MaxVisits)
          /\ Create("u1", body)
    \/ \E id \in 1..MaxVisits, body \in VisitUpdates : Update("u1", id, body)
    \/ \E c \in VisitCancels, id \in 1..MaxVisits : Cancel(c[1], id, c[2])
    \/ \E body \in VisitCheckIns :
          Room4SignIn(CheckInResponse("u1", body), MaxVisits) /\ CheckIn("u1", body)
    \/ \E id \in 1..MaxVisits : CheckOut("u1", id, "")

SpecVisit == InitEmpty /\ [][NextVisit]_vars

(***************************************************************************)
(* SpecDoor: check-in requests that run concurrently.  A request gives way *)
(* at its awaits: BeginCheckIn runs it through the lookups of the          *)
(* reservation and of an active sign-in record, SaveSignIn is              *)
(* signIn.save(), ReadRoom is Room.findById, SaveRoom is roomData.save().  *)
(***************************************************************************)
\* the document of a suspended request before Room.findById has answered
NoRoomData == <<>>

BeginCheckIn(p, userId, body) ==
    /\ inflight[p] = Idle
    /\ IF CheckInResponse(userId, body).status \notin {201, 500}
       THEN /\ res' = CheckInResponse(userId, body)
            /\ UNCHANGED inflight
       ELSE /\ inflight' = [inflight EXCEPT ![p] =
                              [user |-> userId, body |-> body, at |-> "signIn.save",
                               roomData |-> NoRoomData]]
            /\ UNCHANGED res
    /\ UNCHANGED <<reservations, signIns, rooms>>

SaveSignIn(p) ==
    /\ inflight[p] # Idle
    /\ inflight[p].at = "signIn.save"
    /\ signIns' = Append(signIns, NewSignIn(inflight[p].user, inflight[p].body))
    /\ inflight' = [inflight EXCEPT ![p].at = "Room.findById"]
    /\ UNCHANGED <<reservations, rooms, res>>

\* null.currentOccupancy throws: the catch block answers 500
ReadRoom(p) ==
    /\ inflight[p] # Idle
    /\ inflight[p].at = "Room.findById"
    /\ IF inflight[p].body.room \in DOMAIN rooms
       THEN /\ inflight' = [inflight EXCEPT ![p].at = "roomData.save",
                                            ![p].roomData = rooms[inflight[p].body.room]]
            /\ UNCHANGED res
       ELSE /\ inflight' = [inflight EXCEPT ![p] = Idle]
            /\ res' = Response("checkin", 500, "Error during check-in")
    /\ UNCHANGED <<reservations, signIns, rooms>>

\* save() writes the paths the request changed in its copy of the document:
\* currentOccupancy, and occupancyStatus when the hook changed it
WrittenRoom(stored, read) ==
    [stored EXCEPT
        !.currentOccupancy = read.currentOccupancy + 1,
        !.occupancyStatus =
            IF SavedRoom([read EXCEPT !.currentOccupancy = @ + 1]).occupancyStatus
                 # read.occupancyStatus
            THEN SavedRoom([read EXCEPT !.currentOccupancy = @ + 1]).occupancyStatus
            ELSE @]

SaveRoom(p) ==
    /\ inflight[p] # Idle
    /\ inflight[p].at = "roomData.save"
    /\ rooms' = [rooms EXCEPT ![inflight[p].body.room] =
                    WrittenRoom(@, inflight[p].roomData)]
    /\ res' = Response("checkin", 201, "Check-in successful")
    /\ inflight' = [inflight EXCEPT ![p] = Idle]
    /\ UNCHANGED <<reservations, signIns>>

DoorCheckIns ==
    [reservation : 1..MaxVisits, room : {"r1"}, building : {"b1"}, notes : {""}]

\* requests that passed the lookups and have not saved their sign-in record
Admitted == {p \in Procs : inflight[p] # Idle /\ inflight[p].at = "signIn.save"}

NextDoor ==
    \/ \E body \in VisitBodies :
          /\ Room4Reservation(CreateResponse(reservations, "u1", body), MaxVisits)
          /\ Create("u1", body)
    \/ \E p \in Procs, body \in DoorCheckIns :
          /\ Len(signIns) + Cardinality(Admitted) < MaxDoorSignIns
          /\ BeginCheckIn(p, "u1", body)
    \/ \E p \in Procs : SaveSignIn(p)
    \/ \E p \in Procs : ReadRoom(p)
    \/ \E p \in Procs : SaveRoom(p)

SpecDoor == InitEmpty /\ [][NextDoor]_vars

(***************************************************************************)
(* SpecDesk: one reservation, the visits to its room, and the edits of the *)
(* sign-in records by their owner, another user and an admin.              *)
(***************************************************************************)
DeskBodies ==
    [room : {"r1"}, building : {"b1"}, reservationDate : {"2024-12-05"},
     startTime : {T1000}, endTime : {T1200}, purpose : {"studying"},
     numberOfPeople : {1}, notes : {""}]

DeskCheckIns ==
    [reservation : 1..MaxReservations, room : {"r1"}, building : {"b1"}, notes : {""}]

DeskEdits ==
    [notes : {"", "left early"},
     status : {"", "active", "completed", "abandoned", "paused"}]

DeskCallers == {"u1", "u2", "adm"}

NextDesk ==
    \/ \E body \in DeskBodies :
          /\ Room4Reservation(CreateResponse(reservations, "u1", body), MaxReservations)
          /\ Create("u1", body)
    \/ \E body \in DeskCheckIns :
          Room4SignIn(CheckInResponse("u1", body), MaxDeskSignIns) /\ CheckIn("u1", body)
    \/ \E u \in {"u1", "adm"}, id \in 1..MaxDeskSignIns : CheckOut(u, id, "")
    \/ \E u \in DeskCallers, id \in 1..MaxDeskSignIns, body \in DeskEdits :
          UpdateSignIn(u, id, body)

SpecDesk == InitEmpty /\ [][NextDesk]_vars

(***************************************************************************)
(* SpecRoom: the saves of a room: a visit to it, the occupancy patch       *)
(* (anyone) and the room update (admins).                                  *)
(***************************************************************************)
RoomPatches ==
    [currentOccupancy : {NoCount, <<-1>>, <<0>>, <<2>>},
     status : {"", "available", "occupied", "maintenance", "closed"}]

RoomEdits ==
    [capacity : {-1, 0, 3},
     occupancyStatus : {"", "available", "occupied", "maintenance", "closed"}]

NextRoom ==
    \/ \E body \in DeskBodies :
          /\ Room4Reservation(CreateResponse(reservations, "u1", body), MaxReservations)
          /\ Create("u1", body)
    \/ \E body \in DeskCheckIns :
          Room4SignIn(CheckInResponse("u1", body), MaxSignIns) /\ CheckIn("u1", body)
    \/ \E id \in 1..MaxSignIns : CheckOut("u1", id, "")
    \/ \E r \in {"r1", "r9"}, body \in RoomPatches : PatchOccupancy(r, body)
    \/ \E u \in {"u1", "adm"}, r \in {"r1", "r9"}, body \in RoomEdits :
          UpdateRoom(u, r, body)

SpecRoom == InitEmpty /\ [][NextRoom]_vars

(***************************************************************************)
(* SpecRelease: a slot that is booked, released by a cancellation or a     *)
(* visit, and booked again, next to a later slot of the same room and      *)
(* date; updates ask for status confirmed or no-show.                      *)
(***************************************************************************)
ReleaseBodies ==
    [room : {"r1"}, building : {"b1"}, reservationDate : {"2024-12-05"},
     startTime : {T0800}, endTime : {T0900}, purpose : {"studying"},
     numberOfPeople : {1}, notes : {""}]
    \cup
    [room : {"r1"}, building : {"b1"}, reservationDate : {"2024-12-05"},
     startTime : {T1000}, endTime : {T1100}, purpose : {"studying"},
     numberOfPeople : {1}, notes : {""}]

ReleaseUpdates ==
    [startTime : {NoTime}, endTime : {NoTime}, numberOfPeople : {0}, notes : {""},
     status : {"confirmed", "no-show"}]

ReleaseCheckIns ==
    [reservation : 1..MaxBookings, room : {"r1"}, building : {"b1"}, notes : {""}]

NextRelease ==
    \/ \E body \in ReleaseBodies :
          /\ Room4Reservation(CreateResponse(reservations, "u1", body), MaxBookings)
          /\ Create("u1", body)
    \/ \E id \in 1..MaxBookings, body \in ReleaseUpdates : Update("u1", id, body)
    \/ \E id \in 1..MaxBookings : Cancel("u1", id, "")
    \/ \E body \in ReleaseCheckIns :
          Room4SignIn(CheckInResponse("u1", body), MaxSignIns) /\ CheckIn("u1", body)
    \/ \E id \in 1..MaxSignIns : CheckOut("u1", id, "")

SpecRelease == InitEmpty /\ [][NextRelease]_vars

(***************************************************************************)
(* SpecClock: the visits to one reservation's room with the clock          *)
(* explored: new Date() of a check-in and of a check-out reads any of a    *)
(* few instants not earlier than those stored; the sign-in records are     *)
(* saved again by their owner and by an admin.                             *)
(***************************************************************************)
CheckInReadings == {<<0>>, <<15000>>}

CheckOutReadings == {<<29999>>, <<45000>>, <<105000>>, <<3630000>>}

\* the clock does not run backwards
NotEarlier(now) ==
    \A s \in DOMAIN signIns :
        /\ signIns[s].signInTime[1] <= now[1]
        /\ signIns[s].signOutTime # NoDate => signIns[s].signOutTime[1] <= now[1]

ClockEdits == [notes : {"", "left early"}, status : {"", "active", "abandoned"}]

NextClock ==
    \/ \E body \in DeskBodies :
          /\ Room4Reservation(CreateResponse(reservations, "u1", body), MaxReservations)
          /\ Create("u1", body)
    \/ \E body \in DeskCheckIns, now \in CheckInReadings :
          /\ Room4SignIn(CheckInResponse("u1", body), MaxDeskSignIns)
          /\ NotEarlier(now)
          /\ CheckInAt("u1", body, now)
    \/ \E id \in 1..MaxDeskSignIns, now \in CheckOutReadings :
          NotEarlier(now) /\ CheckOutAt("u1", id, "", now)
    \/ \E u \in {"u1", "adm"}, id \in 1..MaxDeskSignIns, body \in ClockEdits :
          UpdateSignIn(u, id, body)

SpecClock == InitEmpty /\ [][NextClock]_vars

(***************************************************************************)
(* SpecFloor: reservations of the two rooms (r1 seats two, r2 seats one)   *)
(* in two adjacent slots of one date, and check-in requests that name      *)
(* either room.                                                            *)
(***************************************************************************)
FloorBodies ==
    [room : {"r1", "r2"}, building : {"b1"}, reservationDate : {"2024-12-05"},
     startTime : {T1000}, endTime : {T1100}, purpose : {"studying"},
     numberOfPeople : {1}, notes : {""}]
    \cup
    [room : {"r1", "r2"}, building : {"b1"}, reservationDate : {"2024-12-05"},
     startTime : {T1100}, endTime : {T1200}, purpose : {"studying"},
     numberOfPeople : {1}, notes : {""}]

FloorCheckIns ==
    [reservation : 1..MaxVisits, room : {"r1", "r2"}, building : {"b1"}, notes : {""}]

NextFloor ==
    \/ \E body \in FloorBodies :
          /\ Room4Reservation(CreateResponse(reservations, "u1", body), MaxVisits)
          /\ Create("u1", body)
    \/ \E body \in FloorCheckIns :
          Room4SignIn(CheckInResponse("u1", body), MaxVisits) /\ CheckIn("u1", body)
    \/ \E id \in 1..MaxVisits : CheckOut("u1", id, "")

SpecFloor == InitEmpty /\ [][NextFloor]_vars

(***************************************************************************)
(* Vocabulary of the properties.                                           *)
(***************************************************************************)
\* the calendar date of an instant, in days since the epoch
CalendarDate(t) == t \div 1440

\* [s1,e1) and [s2,e2) overlap, as times of day
MinutesOverlap(s1, e1, s2, e2) ==
    ~(MinuteOfDay(e1) <= MinuteOfDay(s2) \/ MinuteOfDay(s1) >= MinuteOfDay(e2))

\* reservations i and j hold the same room on the same date, both pending or
\* confirmed, for overlapping times
DoubleBooked(i, j) ==
    /\ reservations[i].room = reservations[j].room
    /\ CalendarDate(reservations[i].reservationDate)
         = CalendarDate(reservations[j].reservationDate)
    /\ reservations[i].status \in ActiveStatuses
    /\ reservations[j].status \in ActiveStatuses
    /\ MinutesOverlap(reservations[i].startTime, reservations[i].endTime,
                      reservations[j].startTime, reservations[j].endTime)

\* a pending or confirmed reservation other than `except` holds the room on the
\* calendar date of the instant `date` for a time that overlaps [startTime, endTime)
Taken(roomId, date, startTime, endTime, except) ==
    \E i \in DOMAIN reservations :
        /\ i # except
        /\ reservations[i].room = roomId
        /\ CalendarDate(reservations[i].reservationDate) = CalendarDate(date)
        /\ reservations[i].status \in ActiveStatuses
        /\ MinutesOverlap(startTime, endTime,
                          reservations[i].startTime, reservations[i].endTime)

FieldsPresent(body) ==
    /\ body.room # "" /\ body.building # "" /\ body.reservationDate # ""
    /\ body.startTime # NoTime /\ body.endTime # NoTime
    /\ body.purpose # "" /\ body.numberOfPeople # 0

\* the create request passes the checks on fields, room, building and capacity
Admissible(body) ==
    /\ FieldsPresent(body)
    /\ body.room \in DOMAIN rooms
    /\ body.building \in Buildings
    /\ body.numberOfPeople <= rooms[body.room].capacity

OwnerOrAdmin(u, id) == reservations[id].user = u \/ Role[u] = "admin"

\* the occupancy status a request asks for: the one it names when that is a
\* status of the schema, the stored one otherwise
AskedStatus(named, stored) ==
    IF named \in {"available", "occupied", "maintenance"} THEN named ELSE stored

\* the status of a room whose count is 0, given the status asked for
StatusAtZero(asked) == IF asked = "maintenance" THEN "maintenance" ELSE "available"

\* the reservation has a sign-in record with status active
HasActiveSignIn(reservation) ==
    \E s \in DOMAIN signIns :
        signIns[s].reservation = reservation /\ signIns[s].status = "active"

(***************************************************************************)
(* C1: after any sequence of requests, each run to completion, no two      *)
(* pending or confirmed reservations of one room and date overlap.         *)
(* Violated: create 9:00-11:00 twice (the string comparison of C31);       *)
(* create the same slot for 2024-12-05 and for 2024-12-05T10:00Z; and      *)
(* create / cancel / create the same slot / update the first with          *)
(* status=confirmed.                                                       *)
(***************************************************************************)
C1_NoDoubleBooking ==
    \A i \in DOMAIN reservations : \A j \in DOMAIN reservations :
        i < j => ~DoubleBooked(i, j)

(***************************************************************************)
(* C2: an admissible create request with end after start succeeds, adding  *)
(* one pending reservation, exactly when its interval overlaps no pending  *)
(* or confirmed reservation of the room and date; otherwise it fails with  *)
(* 409 and adds nothing.  Violated by a date that carries a time of day    *)
(* (the query matches the stored instant, not the calendar date) and by    *)
(* "9:00"-"11:00" against "10:00"-... (C31).                               *)
(***************************************************************************)
C2_CreateIffFree ==
    [][\A body \in BookingBodies :
          (/\ Admissible(body)
           /\ MinuteOfDay(body.startTime) < MinuteOfDay(body.endTime)
           /\ Create("u1", body))
          => IF Taken(body.room, NewDate(body.reservationDate),
                      body.startTime, body.endTime, 0)
             THEN res'.status = 409 /\ reservations' = reservations
             ELSE /\ res'.status = 201
                  /\ Len(reservations') = Len(reservations) + 1
                  /\ SubSeq(reservations', 1, Len(reservations)) = reservations
                  /\ reservations'[Len(reservations')].status = "pending"]_vars

(***************************************************************************)
(* C3: for start < end, checkBookingConflict is true exactly when a stored *)
(* reservation of the room and date, pending or confirmed, other than      *)
(* excludeId, overlaps [start, end).  Violated by a stored date with a     *)
(* time of day, and by "9:00" (C31).                                       *)
(***************************************************************************)
C3_CheckerExact ==
    \A roomId \in {"r1", "r2"},
       date \in {NewDate("2024-12-05"), NewDate("2024-12-05T10:00:00.000Z"),
                 NewDate("2024-12-06")},
       startTime \in {T0900, T1000, T1100, T1200},
       endTime \in {T0900, T1000, T1100, T1200}, excludeId \in 0..MaxBookings :
        MinuteOfDay(startTime) < MinuteOfDay(endTime)
        => (checkBookingConflict(reservations, roomId, date, startTime, endTime, excludeId)
            <=> Taken(roomId, date, startTime, endTime, excludeId))

(***************************************************************************)
(* C4: when create requests race, the reservation index lets at most one   *)
(* of two overlapping ones be persisted.  Violated: both pass the conflict *)
(* check before either saves, and the index refuses nothing.               *)
(***************************************************************************)
C4_RaceFree ==
    ~\E i \in DOMAIN reservations, j \in DOMAIN reservations :
        i # j /\ DoubleBooked(i, j)

(***************************************************************************)
(* C5: a create or update request whose numberOfPeople exceeds the room's  *)
(* capacity persists nothing, and fails with 400 when it reaches the       *)
(* capacity check (fields present, room and building found; caller         *)
(* authorized and no time conflict).                                       *)
(***************************************************************************)
C5_CapacityEnforced ==
    [][/\ \A u \in Users, body \in CreateBodies :
            (/\ body.room \in DOMAIN rooms
             /\ body.numberOfPeople > rooms[body.room].capacity
             /\ Create(u, body))
            => /\ reservations' = reservations
               /\ res'.status # 201
               /\ (FieldsPresent(body) /\ body.building \in Buildings
                      => res'.status = 400)
       /\ \A u \in Users, id \in 1..MaxReservations, body \in UpdateBodies :
            (/\ id \in DOMAIN reservations
             /\ body.numberOfPeople > rooms[reservations[id].room].capacity
             /\ Update(u, id, body))
            => /\ reservations' = reservations
               /\ res'.status # 200
               /\ (OwnerOrAdmin(u, id) /\ res'.status # 409 => res'.status = 400)]_vars

C5_Witness ==
    /\ res.op = "update" /\ res.status = 400 /\ res.message = "Room capacity is"
    /\ \E i \in DOMAIN reservations : reservations[i].status = "pending"

(***************************************************************************)
(* C6: a create request with end not after start fails with 400 and adds   *)
(* nothing, whatever is stored.  Violated: the conflict check runs before  *)
(* the duration check, so 11:00-11:00 against a stored 10:00-12:00 gets    *)
(* 409.                                                                    *)
(***************************************************************************)
C6_NonPositiveDurationIs400 ==
    [][\A u \in Creators, body \in CreateBodies :
          (/\ Admissible(body)
           /\ MinuteOfDay(body.endTime) <= MinuteOfDay(body.startTime)
           /\ Create(u, body))
          => res'.status = 400 /\ reservations' = reservations]_vars

(***************************************************************************)
(* C7: an update of a reservation that is not pending, without             *)
(* status=confirmed, leaves the store unchanged and, for the owner or an   *)
(* admin, fails with 400.                                                  *)
(***************************************************************************)
C7_NonPendingNotModified ==
    [][\A u \in Users, id \in 1..MaxReservations, body \in UpdateBodies :
          (/\ id \in DOMAIN reservations
           /\ reservations[id].status # "pending"
           /\ body.status # "confirmed"
           /\ Update(u, id, body))
          => /\ reservations' = reservations
             /\ (OwnerOrAdmin(u, id) => res'.status = 400)]_vars

C7_Witness ==
    /\ res.op = "update" /\ res.status = 400
    /\ res.message = "Can only modify pending reservations"
    /\ \E i \in DOMAIN reservations : reservations[i].status = "confirmed"

(***************************************************************************)
(* C8: an update that changes the time fails with 409, times unchanged,    *)
(* when the resulting interval overlaps another pending or confirmed       *)
(* reservation of the room and date, and is not refused as a conflict      *)
(* otherwise (its own previous interval does not count).  Violated by      *)
(* "9:00" (C31).                                                           *)
(***************************************************************************)
C8_UpdateConflict ==
    [][\A id \in 1..MaxBookings, body \in RebookingBodies :
          (/\ id \in DOMAIN reservations
           /\ (body.startTime # NoTime \/ body.endTime # NoTime)
           /\ ~StatusGate(reservations[id], body)
           /\ Update("u1", id, body))
          => IF Taken(reservations[id].room, reservations[id].reservationDate,
                      IF body.startTime # NoTime THEN body.startTime
                                                 ELSE reservations[id].startTime,
                      IF body.endTime # NoTime THEN body.endTime
                                               ELSE reservations[id].endTime,
                      id)
             THEN res'.status = 409 /\ reservations' = reservations
             ELSE res'.status # 409]_vars

C10_OthersForbidden ==
    [][\A u \in Users, id \in 1..MaxReservations :
          (/\ id \in DOMAIN reservations
           /\ reservations[id].user # u
           /\ Role[u] # "admin")
          => /\ \A body \in UpdateBodies :
                   Update(u, id, body)
                   => res'.status = 403 /\ reservations' = reservations
             /\ Cancel(u, id, "")
                   => res'.status = 403 /\ reservations' = reservations]_vars

C10_Witness ==
    /\ res.op = "cancel" /\ res.status = 403
    /\ \E i \in DOMAIN reservations :
          reservations[i].user = "u1" /\ reservations[i].status \in ActiveStatuses

(***************************************************************************)
(* C11: a cancel request by the owner or an admin on a pending or          *)
(* confirmed reservation succeeds; it sets the status to cancelled, stores *)
(* the reason given (the empty string when none is given), a cancellation  *)
(* timestamp and the caller as cancelledBy, and changes nothing else in    *)
(* the reservation and no other reservation.                               *)
(***************************************************************************)
C11_CancelRecords ==
    [][\A c \in VisitCancels, id \in 1..MaxVisits :
          (/\ id \in DOMAIN reservations
           /\ OwnerOrAdmin(c[1], id)
           /\ reservations[id].status \in ActiveStatuses
           /\ Cancel(c[1], id, c[2]))
          => /\ res'.status = 200
             /\ reservations'[id] =
                   [reservations[id] EXCEPT !.status = "cancelled",
                                            !.cancelReason = c[2],
                                            !.cancelledAt = reservations'[id].cancelledAt,
                                            !.cancelledBy = c[1]]
             /\ reservations'[id].cancelledAt # "null"
             /\ DOMAIN reservations' = DOMAIN reservations
             /\ \A j \in DOMAIN reservations :
                   j # id => reservations'[j] = reservations[j]]_vars

\* an admin cancelled, with a reason, one of two reservations; the other stands
C11_Witness ==
    /\ res.op = "cancel" /\ res.status = 200
    /\ \E i \in DOMAIN reservations, j \in DOMAIN reservations :
          /\ reservations[i].status = "cancelled"
          /\ reservations[i].cancelledBy = "adm"
          /\ reservations[i].cancelReason = "sick"
          /\ reservations[j].status \in ActiveStatuses

(***************************************************************************)
(* C12: a cancel request on a reservation whose status is completed,       *)
(* cancelled or no-show changes nothing in the store, status and           *)
(* cancellation metadata included; the owner or an admin gets 400, any     *)
(* other caller 403.                                                       *)
(***************************************************************************)
C12_TerminalNotCancelled ==
    [][\A u \in Users, id \in 1..MaxReservations :
          (/\ id \in DOMAIN reservations
           /\ reservations[id].status \in {"completed", "cancelled", "no-show"}
           /\ Cancel(u, id, ""))
          => /\ reservations' = reservations
             /\ res'.status = IF OwnerOrAdmin(u, id) THEN 400 ELSE 403]_vars

\* a cancel request refused on a completed reservation
C12_Witness ==
    /\ res.op = "cancel" /\ res.status = 400
    /\ \E i \in DOMAIN reservations : reservations[i].status = "completed"

(***************************************************************************)
(* C13: completed, cancelled and no-show are terminal: no request changes  *)
(* the status of a reservation that has one of them.  Violated: an update  *)
(* with status=confirmed re-confirms a cancelled, completed or no-show     *)
(* reservation, and the check-out of a sign-in made before the             *)
(* cancellation turns cancelled into completed.                            *)
(***************************************************************************)
C13_TerminalStatusesFinal ==
    [][\A id \in DOMAIN reservations :
          reservations[id].status \in {"completed", "cancelled", "no-show"}
          => reservations'[id].status = reservations[id].status]_vars

(***************************************************************************)
(* C14: the status of a pending reservation only becomes confirmed or      *)
(* cancelled, and that of a confirmed one only cancelled or, by a          *)
(* check-out, completed.  Violated: check-in accepts a pending             *)
(* reservation and its check-out completes it.                             *)
(***************************************************************************)
C14_StatusEdges ==
    [][\A id \in DOMAIN reservations :
          /\ reservations[id].status = "pending"
                => reservations'[id].status \in {"pending", "confirmed", "cancelled"}
          /\ reservations[id].status = "confirmed"
                => /\ reservations'[id].status \in {"confirmed", "cancelled", "completed"}
                   /\ (reservations'[id].status = "completed" => res'.op = "checkout")]_vars

(***************************************************************************)
(* C15: a check-in by the owner for a pending or confirmed reservation     *)
(* without an active sign-in succeeds: it adds exactly one sign-in record, *)
(* active and with signInTime set, and raises by exactly 1 the             *)
(* currentOccupancy of the reservation's room, which is then occupied.     *)
(* Violated by a request whose room id names no room: the sign-in record   *)
(* is saved, no occupancy is raised, the answer is 500 (C24).              *)
(***************************************************************************)
C15_CheckInEffect ==
    [][\A body \in VisitCheckIns :
          (/\ body.reservation \in DOMAIN reservations
           /\ reservations[body.reservation].user = "u1"
           /\ reservations[body.reservation].status \in ActiveStatuses
           /\ ~HasActiveSignIn(body.reservation)
           /\ CheckIn("u1", body))
          => LET room == reservations[body.reservation].room
             IN  /\ res'.status = 201
                 /\ Len(signIns') = Len(signIns) + 1
                 /\ SubSeq(signIns', 1, Len(signIns)) = signIns
                 /\ signIns'[Len(signIns')].status = "active"
                 /\ signIns'[Len(signIns')].reservation = body.reservation
                 /\ signIns'[Len(signIns')].signInTime # NoDate
                 /\ rooms'[room].currentOccupancy = rooms[room].currentOccupancy + 1
                 /\ rooms'[room].occupancyStatus = "occupied"]_vars

(***************************************************************************)
(* C16: a check-in for a reservation that has an active sign-in fails with *)
(* 400, adds no sign-in record and changes no room.                        *)
(***************************************************************************)
C16_SecondCheckInRefused ==
    [][\A body \in VisitCheckIns :
          (HasActiveSignIn(body.reservation) /\ CheckIn("u1", body))
          => /\ res'.status = 400
             /\ signIns' = signIns
             /\ rooms' = rooms]_vars

\* refused while the first sign-in of the reservation is active
C16_Witness ==
    /\ res.op = "checkin" /\ res.message = "Already checked in for this reservation"
    /\ \E s \in DOMAIN signIns :
          signIns[s].status = "active" /\ rooms[signIns[s].room].currentOccupancy = 1

(***************************************************************************)
(* C17: a check-in for a cancelled, completed or no-show reservation, or   *)
(* for a reservation that does not exist, adds no sign-in record and       *)
(* changes no room; the answer is 404 when the reservation does not exist  *)
(* and, for the owner, 400 when its status is terminal (403 for others).   *)
(***************************************************************************)
C17_CheckInRefused ==
    [][\A u \in Users, body \in CheckInBodies :
          (/\ \/ body.reservation \notin DOMAIN reservations
              \/ reservations[body.reservation].status
                    \in {"cancelled", "completed", "no-show"}
           /\ CheckIn(u, body))
          => /\ signIns' = signIns
             /\ rooms' = rooms
             /\ res'.status =
                   IF body.reservation \notin DOMAIN reservations THEN 404
                   ELSE IF reservations[body.reservation].user = u THEN 400
                   ELSE 403]_vars

\* refused on a cancelled reservation
C17_Witness ==
    /\ res.op = "checkin" /\ res.status = 400
    /\ res.message = "Can only check in for pending or confirmed reservations"
    /\ \E i \in DOMAIN reservations : reservations[i].status = "cancelled"

(***************************************************************************)
(* C18: a check-in by anyone but the reservation's owner, and a check-out  *)
(* by anyone but the sign-in record's owner, an admin included, fails with *)
(* 403 and changes no sign-in record, room or reservation.                 *)
(***************************************************************************)
C18_OwnerOnly ==
    [][\A u \in Users :
          /\ \A body \in CheckInBodies :
                (/\ body.reservation \in DOMAIN reservations
                 /\ reservations[body.reservation].user # u
                 /\ CheckIn(u, body))
                => res'.status = 403 /\ UNCHANGED <<signIns, rooms, reservations>>
          /\ \A id \in 1..MaxSignIns :
                (/\ id \in DOMAIN signIns
                 /\ signIns[id].user # u
                 /\ CheckOut(u, id, ""))
                => res'.status = 403 /\ UNCHANGED <<signIns, rooms, reservations>>]_vars

\* a check-out refused while the sign-in record is active
C18_Witness ==
    /\ res.op = "checkout" /\ res.status = 403
    /\ \E s \in DOMAIN signIns : signIns[s].status = "active"

(***************************************************************************)
(* C19: a check-out by the owner of an active sign-in succeeds: it sets    *)
(* signOutTime and status completed, lowers the room's currentOccupancy by *)
(* 1 but not below 0, and completes the linked reservation with            *)
(* checkInTime and checkOutTime taken from the sign-in record.  Violated   *)
(* for a sign-in record whose room does not exist: the record is           *)
(* completed, the reservation is not, the answer is 500 (C24).             *)
(***************************************************************************)
C19_CheckOutEffect ==
    [][\A id \in 1..MaxVisits :
          (/\ id \in DOMAIN signIns
           /\ signIns[id].user = "u1"
           /\ signIns[id].status = "active"
           /\ CheckOut("u1", id, ""))
          => /\ res'.status = 200
             /\ signIns'[id].status = "completed"
             /\ signIns'[id].signOutTime # NoDate
             /\ signIns[id].room \in DOMAIN rooms
                   => rooms'[signIns[id].room].currentOccupancy =
                        (IF rooms[signIns[id].room].currentOccupancy > 0
                         THEN rooms[signIns[id].room].currentOccupancy - 1 ELSE 0)
             /\ reservations'[signIns[id].reservation].status = "completed"
             /\ reservations'[signIns[id].reservation].checkInTime
                   = signIns'[id].signInTime
             /\ reservations'[signIns[id].reservation].checkOutTime
                   = signIns'[id].signOutTime]_vars

(***************************************************************************)
(* C20: a successful check-in raises the room's currentOccupancy by 1, and *)
(* the check-out of the sign-in it created, as the next request, succeeds, *)
(* lowers it by 1 again and leaves the reservation completed: the count is *)
(* back at its value before the check-in.                                  *)
(***************************************************************************)
C20_RoundTrip ==
    [][/\ \A body \in VisitCheckIns :
            (CheckIn("u1", body) /\ res'.status = 201)
            => rooms'[body.room].currentOccupancy
                  = rooms[body.room].currentOccupancy + 1
       /\ (/\ res.op = "checkin" /\ res.status = 201
           /\ CheckOut("u1", Len(signIns), ""))
          => LET signIn == signIns[Len(signIns)]
             IN  /\ res'.status = 200
                 /\ rooms'[signIn.room].currentOccupancy
                       = rooms[signIn.room].currentOccupancy - 1
                 /\ reservations'[signIn.reservation].status = "completed"]_vars

\* the second visit ended right after it began, while the first goes on: the
\* count is back at 1
C20_Witness ==
    /\ res.op = "checkout" /\ res.status = 200
    /\ Len(signIns) = 2
    /\ signIns[1].status = "active" /\ signIns[2].status = "completed"
    /\ signIns[1].room = signIns[2].room
    /\ rooms[signIns[2].room].currentOccupancy = 1
    /\ reservations[signIns[2].reservation].status = "completed"

(***************************************************************************)
(* C21: a check-out of a sign-in record whose status is completed or       *)
(* abandoned changes no sign-in record, no room and no reservation, and    *)
(* the record's owner gets 400 (anyone else 403): a repeated check-out     *)
(* does not lower the count a second time.                                 *)
(***************************************************************************)
C21_InactiveNotCheckedOut ==
    [][\A u \in {"u1", "adm"}, id \in 1..MaxDeskSignIns :
          (/\ id \in DOMAIN signIns
           /\ signIns[id].status \in {"completed", "abandoned"}
           /\ CheckOut(u, id, ""))
          => /\ UNCHANGED <<signIns, rooms, reservations>>
             /\ res'.status = IF signIns[id].user = u THEN 400 ELSE 403]_vars

\* an abandoned record's owner was refused while the room's count was above 0
C21_Witness ==
    /\ res = Response("checkout", 400, "Check-in is not active")
    /\ \E s \in DOMAIN signIns : signIns[s].status = "abandoned"
    /\ rooms["r1"].currentOccupancy > 0

(***************************************************************************)
(* C22: in every state reached by check-ins, check-outs and updates of     *)
(* sign-in records, an admin's included, a reservation has at most one     *)
(* sign-in record with status active.  Violated: check-in; an admin sets   *)
(* the record abandoned; check-in again; the admin sets the first record   *)
(* active.                                                                 *)
(***************************************************************************)
C22_OneActiveSignIn ==
    \A i \in DOMAIN reservations :
        Cardinality({s \in DOMAIN signIns :
                        signIns[s].reservation = i /\ signIns[s].status = "active"}) <= 1

(***************************************************************************)
(* C23: after every request, those that save a room included (check-in,    *)
(* check-out, occupancy patch, room update), a room's occupancyStatus is   *)
(* occupied exactly when its currentOccupancy is above 0; a patch or       *)
(* update that leaves the count at 0 leaves the status maintenance when    *)
(* maintenance was asked for (or stored and nothing else asked) and        *)
(* available otherwise, and a status asked for against the count is        *)
(* overridden.                                                             *)
(***************************************************************************)
C23_StatusFollowsCount ==
    [][/\ \A r \in DOMAIN rooms :
             rooms'[r].occupancyStatus = "occupied" <=> rooms'[r].currentOccupancy > 0
       /\ \A r \in DOMAIN rooms, body \in RoomPatches :
             (PatchOccupancy(r, body) /\ rooms'[r].currentOccupancy = 0)
             => rooms'[r].occupancyStatus
                  = StatusAtZero(AskedStatus(body.status, rooms[r].occupancyStatus))
       /\ \A r \in DOMAIN rooms, body \in RoomEdits :
             (UpdateRoom("adm", r, body) /\ res'.status = 200
                /\ rooms'[r].currentOccupancy = 0)
             => rooms'[r].occupancyStatus
                  = StatusAtZero(AskedStatus(body.occupancyStatus,
                                             rooms[r].occupancyStatus))]_vars

\* a patch left an empty room in maintenance
C23_Witness ==
    /\ res = Response("occupancy", 200, "Room occupancy updated successfully")
    /\ rooms["r1"].currentOccupancy = 0
    /\ rooms["r1"].occupancyStatus = "maintenance"

(***************************************************************************)
(* C24: a check-in request that leaves a new active sign-in record has     *)
(* raised the currentOccupancy of the record's room by 1, whatever its     *)
(* answer; a check-out request that leaves a record completed has lowered  *)
(* the room's count by 1 (not below 0).  Violated by a check-in whose room *)
(* id names no room: the record is saved before the room is looked up, the *)
(* lookup result is dereferenced, the answer is 500 and the record stays;  *)
(* the check-out of that record fails the same way.                        *)
(***************************************************************************)
C24_VisitIsOneUnit ==
    [][/\ \A body \in VisitCheckIns :
             (CheckIn("u1", body) /\ Len(signIns') > Len(signIns))
             => /\ body.room \in DOMAIN rooms
                /\ rooms'[body.room].currentOccupancy
                     = rooms[body.room].currentOccupancy + 1
       /\ \A id \in 1..MaxVisits :
             (/\ id \in DOMAIN signIns
              /\ signIns[id].status = "active"
              /\ CheckOut("u1", id, "")
              /\ signIns'[id].status = "completed")
             => /\ signIns[id].room \in DOMAIN rooms
                /\ rooms'[signIns[id].room].currentOccupancy
                     = IF rooms[signIns[id].room].currentOccupancy > 0
                       THEN rooms[signIns[id].room].currentOccupancy - 1
                       ELSE 0]_vars

(***************************************************************************)
(* C26: in every state reached from the seeded store by check-ins,         *)
(* check-outs and edits of sign-in records (no occupancy patch), the       *)
(* currentOccupancy of a room equals the number of active sign-in records  *)
(* of that room.  Violated: check-in, then an admin sets the record's      *)
(* status to completed or abandoned: the count stays 1 with no active      *)
(* record.                                                                 *)
(***************************************************************************)
C26_CountIsActiveSignIns ==
    \A r \in DOMAIN rooms :
        rooms[r].currentOccupancy
          = Cardinality({s \in DOMAIN signIns :
                            signIns[s].room = r /\ signIns[s].status = "active"})

(***************************************************************************)
(* C25: when check-in requests for different reservations of one room run  *)
(* concurrently, once all of them have answered the room's                 *)
(* currentOccupancy has risen by their number: here, it equals the number  *)
(* of sign-in records of the room.  Violated: both requests read the count *)
(* 0 before either saves, both save 1.                                     *)
(***************************************************************************)
C25_NoLostIncrement ==
    (/\ \A p \in Procs : inflight[p] = Idle
     /\ \A s, t \in DOMAIN signIns :
           s # t => signIns[s].reservation # signIns[t].reservation)
    => rooms["r1"].currentOccupancy
         = Cardinality({s \in DOMAIN signIns : signIns[s].room = "r1"})

(***************************************************************************)
(* C28: when check-in requests for one reservation run concurrently, at    *)
(* most one of them gets past the duplicate check: the reservation never   *)
(* has more than one sign-in record, and the room's count never exceeds    *)
(* the number of reservations checked in.  Violated: both requests look    *)
(* for an active sign-in record before either saves its own.               *)
(***************************************************************************)
C28_OneOfTwoCheckIns ==
    /\ \A i \in DOMAIN reservations :
          Cardinality({s \in DOMAIN signIns : signIns[s].reservation = i}) <= 1
    /\ rooms["r1"].currentOccupancy
         <= Cardinality({i \in DOMAIN reservations :
                            \E s \in DOMAIN signIns : signIns[s].reservation = i})

(***************************************************************************)
(* C27: the status of a reservation becomes completed only in a check-out  *)
(* answered 200 that completes an active sign-in record of that            *)
(* reservation; an update stores the status it carries when that is        *)
(* confirmed or cancelled and the request succeeds, and leaves the status  *)
(* as it was otherwise (completed asked for, or nothing).                  *)
(***************************************************************************)
C27_CompletedOnlyByCheckOut ==
    [][/\ \A id \in DOMAIN reservations :
             (reservations'[id].status = "completed"
                /\ reservations[id].status # "completed")
             => /\ res' = Response("checkout", 200, "Check-out successful")
                /\ \E s \in DOMAIN signIns :
                      /\ signIns[s].reservation = id
                      /\ signIns[s].status = "active"
                      /\ signIns'[s].status = "completed"
       /\ \A u \in Users, id \in 1..MaxReservations, body \in UpdateBodies :
             ~(/\ id \in DOMAIN reservations
               /\ reservations'[id].status
                    # (IF body.status \in {"confirmed", "cancelled"} /\ res'.status = 200
                       THEN body.status
                       ELSE reservations[id].status)
               /\ Update(u, id, body))]_vars

\* a check-out completed the reservation
C27_Witness ==
    /\ res = Response("checkout", 200, "Check-out successful")
    /\ Len(reservations) = 1 /\ reservations[1].status = "completed"
    /\ Len(signIns) = 1 /\ signIns[1].status = "completed"
    /\ signIns[1].reservation = 1

(***************************************************************************)
(* C29: in every state reached by create and update requests, the duration *)
(* of a reservation is its end time minus its start time, in minutes.      *)
(* Violated: create 10:00-11:00 (duration 60), then update with endTime    *)
(* 12:00: the times are stored, the duration stays 60.                     *)
(***************************************************************************)
C29_DurationIsEndMinusStart ==
    \A i \in DOMAIN reservations :
        reservations[i].duration
          = MinuteOfDay(reservations[i].endTime) - MinuteOfDay(reservations[i].startTime)

(***************************************************************************)
(* C30: in every state reached by create and update requests, a pending or *)
(* confirmed reservation starts before it ends.  Violated: create          *)
(* 10:00-12:00, then update with startTime 12:00: the update checks the    *)
(* new interval for conflicts only and stores 12:00-12:00.                 *)
(***************************************************************************)
C30_StartBeforeEnd ==
    \A i \in DOMAIN reservations :
        reservations[i].status \in ActiveStatuses
        => MinuteOfDay(reservations[i].startTime) < MinuteOfDay(reservations[i].endTime)

(***************************************************************************)
(* C31: for time values the create route accepts, "9:00" included, and     *)
(* intervals that start before they end, the overlap test of the conflict  *)
(* checker on the strings decides as the same test on the minutes of the   *)
(* day.  Violated: against a stored "9:00"-"11:00" the request             *)
(* "10:00"-"12:00" is no overlap for the strings ("12:00" <= "9:00").      *)
(***************************************************************************)
C31_StringOrderIsMinuteOrder ==
    \A i \in DOMAIN reservations :
        \A s, e \in {T0900, T1000, T1100, T1200} :
            (/\ MinuteOfDay(s) < MinuteOfDay(e)
             /\ MinuteOfDay(reservations[i].startTime)
                  < MinuteOfDay(reservations[i].endTime))
            => (Overlaps(s, e, reservations[i])
                  <=> MinutesOverlap(s, e, reservations[i].startTime,
                                     reservations[i].endTime))

(***************************************************************************)
(* C32: when a reservation of a room, date and interval is cancelled or    *)
(* completed, a create request for the same room, date and interval        *)
(* succeeds, adding a pending reservation, provided no pending or          *)
(* confirmed reservation overlaps the interval.  Violated: 08:00-9:00 is   *)
(* cancelled, 10:00-11:00 is booked, and 08:00-9:00 is refused with 409:   *)
(* the strings "9:00" > "10:00" and "08:00" < "11:00" make an overlap      *)
(* (C31).                                                                  *)
(***************************************************************************)
C32_ReleasedSlotIsFree ==
    [][\A body \in ReleaseBodies :
          (/\ \E i \in DOMAIN reservations :
                  /\ reservations[i].room = body.room
                  /\ CalendarDate(reservations[i].reservationDate)
                       = CalendarDate(NewDate(body.reservationDate))
                  /\ reservations[i].startTime = body.startTime
                  /\ reservations[i].endTime = body.endTime
                  /\ reservations[i].status \in {"cancelled", "completed"}
           /\ ~Taken(body.room, NewDate(body.reservationDate),
                     body.startTime, body.endTime, 0)
           /\ Create("u1", body))
          => /\ res'.status = 201
             /\ Len(reservations') = Len(reservations) + 1
             /\ reservations'[Len(reservations')].status = "pending"]_vars

(***************************************************************************)
(* C33: in every state, a sign-in record without signOutTime has no        *)
(* actualDuration, and one with signOutTime has as actualDuration a whole  *)
(* number of minutes nearest to the time from signInTime to signOutTime    *)
(* (at most half a minute away), also after the record was saved again by  *)
(* an update or checked out a second time.                                 *)
(***************************************************************************)
C33_ActualDuration ==
    \A s \in DOMAIN signIns :
        IF signIns[s].signOutTime = NoDate
        THEN signIns[s].actualDuration = NoDuration
        ELSE /\ signIns[s].actualDuration # NoDuration
             /\ 2 * (60000 * signIns[s].actualDuration[1]
                       - (signIns[s].signOutTime[1] - signIns[s].signInTime[1])) <= 60000
             /\ 2 * ((signIns[s].signOutTime[1] - signIns[s].signInTime[1])
                       - 60000 * signIns[s].actualDuration[1]) <= 60000

\* a record checked out after half a minute and set active again by an admin
C33_Witness ==
    /\ res.op = "updateSignIn" /\ res.status = 200
    /\ \E s \in DOMAIN signIns :
          /\ signIns[s].status = "active"
          /\ signIns[s].signInTime = <<15000>>
          /\ signIns[s].signOutTime = <<45000>>
          /\ signIns[s].actualDuration = <<1>>

(***************************************************************************)
(* C34: no create, update, cancel, check-in or check-out request leaves a  *)
(* reservation in status no-show, and an update that asks for status       *)
(* no-show leaves the status of the reservation as it was.                 *)
(***************************************************************************)
C34_NoShowNeverSet ==
    [][/\ \A i \in DOMAIN reservations' : reservations'[i].status # "no-show"
       /\ \A id \in DOMAIN reservations, body \in ReleaseUpdates :
             (body.status = "no-show" /\ Update("u1", id, body))
             => reservations'[id].status = reservations[id].status]_vars

\* an update asking for no-show was answered 200 and the reservation is pending
C34_Witness ==
    /\ res = Response("update", 200, "Reservation updated successfully")
    /\ Len(reservations) = 1
    /\ reservations[1].status = "pending"

(***************************************************************************)
(* C35: in every state reached by check-ins and check-outs, the            *)
(* currentOccupancy of every room is at least 0 and at most the room's     *)
(* capacity.  It is stated here for the states in which every sign-in      *)
(* record names the room of its reservation.                               *)
(***************************************************************************)
C35_OccupancyWithinCapacity ==
    (\A i \in DOMAIN signIns :
        signIns[i].room = reservations[signIns[i].reservation].room)
    => \A r \in DOMAIN rooms :
          /\ rooms[r].currentOccupancy >= 0
          /\ rooms[r].currentOccupancy <= rooms[r].capacity

(***************************************************************************)
(* C39: every sign-in record created by a check-in names the room of the   *)
(* reservation it is linked to, whatever room id the request carried.      *)
(***************************************************************************)
C39_SignInRoomIsReservationRoom ==
    \A i \in DOMAIN signIns :
        signIns[i].room = reservations[signIns[i].reservation].room

(***************************************************************************)
(* C36: an update that is not answered 200 leaves the stored reservations  *)
(* as they were.  In particular an update of a pending reservation by its  *)
(* owner or an admin that names a new start time no other reservation      *)
(* takes and a numberOfPeople above the room's capacity is answered 400    *)
(* "Room capacity is" and leaves startTime, endTime, numberOfPeople, notes *)
(* and status of the reservation as stored.                                *)
(***************************************************************************)
C36_FailedUpdatePersistsNothing ==
    [][/\ (res'.op = "update" /\ res'.status # 200) => reservations' = reservations
       /\ \A u \in Users, id \in 1..MaxReservations, body \in UpdateBodies :
            (/\ id \in DOMAIN reservations
             /\ body.startTime # NoTime
             /\ body.numberOfPeople > rooms[reservations[id].room].capacity
             /\ OwnerOrAdmin(u, id)
             /\ reservations[id].status = "pending"
             /\ ~Taken(reservations[id].room, reservations[id].reservationDate,
                       body.startTime, reservations[id].endTime, id)
             /\ Update(u, id, body))
            => /\ res' = Response("update", 400, "Room capacity is")
               /\ reservations'[id].startTime = reservations[id].startTime
               /\ reservations'[id].endTime = reservations[id].endTime
               /\ reservations'[id].numberOfPeople = reservations[id].numberOfPeople
               /\ reservations'[id].notes = reservations[id].notes
               /\ reservations'[id].status = reservations[id].status]_vars

\* an update was refused for the capacity and the reservation still has the
\* start time, head count and notes it was created with
C36_Witness ==
    /\ res = Response("update", 400, "Room capacity is")
    /\ Len(reservations) = 1
    /\ reservations[1].status = "pending"
    /\ reservations[1].startTime = T1000
    /\ reservations[1].numberOfPeople = 1
    /\ reservations[1].notes = ""

(***************************************************************************)
(* C37: an update request leaves room, reservationDate, building, user and *)
(* purpose of every reservation as they were, and changes no reservation   *)
(* other than the one it addresses.                                        *)
(***************************************************************************)
C37_UpdateFrame ==
    [][/\ res'.op = "update"
            => /\ DOMAIN reservations' = DOMAIN reservations
               /\ \A i \in DOMAIN reservations :
                     /\ reservations'[i].room = reservations[i].room
                     /\ reservations'[i].reservationDate = reservations[i].reservationDate
                     /\ reservations'[i].building = reservations[i].building
                     /\ reservations'[i].user = reservations[i].user
                     /\ reservations'[i].purpose = reservations[i].purpose
       /\ \A id \in 1..MaxBookings, body \in RebookingBodies :
             ~(/\ res'.op = "update"
               /\ \E j \in DOMAIN reservations :
                     j # id /\ reservations'[j] # reservations[j]
               /\ Update("u1", id, body))]_vars

\* the first of two reservations was moved to start at 12:00 by an update
C37_Witness ==
    /\ res = Response("update", 200, "Reservation updated successfully")
    /\ Len(reservations) = 2
    /\ reservations[1].startTime = T1200
    /\ reservations[2].startTime # T1200

(***************************************************************************)
(* C38: in every reachable state each sign-in record with status active    *)
(* is linked to a reservation whose status is pending or confirmed; a      *)
(* cancellation or a re-confirmation leaves no active sign-in linked to a  *)
(* cancelled or completed reservation.                                     *)
(***************************************************************************)
C38_ActiveSignInOfActiveReservation ==
    \A i \in DOMAIN signIns :
        signIns[i].status = "active"
        => reservations[signIns[i].reservation].status \in ActiveStatuses

(***************************************************************************)
(* C40: in every reachable state a reservation has cancelledAt and         *)
(* cancelledBy set exactly when its status is cancelled, whether the       *)
(* status was reached by a cancel request or by an update with             *)
(* status=cancelled, and also after later updates.                         *)
(***************************************************************************)
C40_CancellationMetadata ==
    \A i \in DOMAIN reservations :
        reservations[i].status = "cancelled"
        <=> (reservations[i].cancelledAt # "null" /\ reservations[i].cancelledBy # "null")

====
